---- MODULE Spec2Model ----
(***************************************************************************)
(* dyn_ord: equality and ordering of type-erased values (src/lib.rs).      *)
(*                                                                         *)
(* The crate is a pair of blanket impls and three operator impls on the    *)
(* trait objects `dyn DynEq` and `dyn DynOrd`.  A call of `==` or          *)
(* `partial_cmp` on a trait object runs a chain of virtual calls           *)
(*     eq / partial_cmp  ->  dyn_eq / dyn_ord  ->  static_eq / static_ord  *)
(* whose last link downcasts one operand to the concrete type of the other *)
(* and, on success, invokes that type's own PartialEq / PartialOrd.        *)
(*                                                                         *)
(* The model runs that chain on an explicit call stack, one action per     *)
(* function body, and records which native comparison was invoked and with *)
(* which operands.  The caller holds two values x and y and applies the    *)
(* operators to them in any order; the previous completed call is kept in  *)
(* `last`, so that properties relating two calls (x == y against y == x,   *)
(* partial_cmp against ==) are state predicates.                           *)
(***************************************************************************)
EXTENDS Integers, Sequences, FiniteSets

VARIABLES
    x, y,     \* the two values the caller holds behind trait-object references
    stack,    \* call stack of frames [fn, self, other], innermost last
    ret,      \* <<>> while no value is being returned, <<v>> when a callee returned v
    cur,      \* the operator call in progress or just completed: [op, self, other]
    native,   \* native comparisons T::eq / T::partial_cmp invoked by the current call
    trace,    \* names of the functions entered by the current call, in order
    last      \* the previous completed call: [op, self, other, res, native]

vars == <<x, y, stack, ret, cur, native, trace, last>>

\* ---------------------------------------------------------------- bounds
\* Numeric payloads range over 0..MaxNum.
MaxNum == 1
\* The call stack is capped at MaxDepth frames.
MaxDepth == 6

\* ------------------------------------------------------- concrete types T
\* i32 (doctests): Eq + Ord.  f64: PartialEq + PartialOrd with NaN.  Both
\* honour the documented contracts of PartialEq and PartialOrd.
LawfulTypes == {"i32", "f64"}

\* Skew: a user type whose hand-written impls compile but ignore the
\* contracts (eq is not symmetric, partial_cmp has no dual and disagrees
\* with eq).  The bounds `T: Any + PartialEq` / `T: Any + PartialOrd` admit it.
AllTypes == LawfulTypes \cup {"Skew"}

\* The values of concrete type t; `ty` is the value's TypeId.
ValuesOf(t) ==
    {[ty |-> t, num |-> n, nan |-> FALSE] : n \in 0..MaxNum}
      \cup (IF t = "f64" THEN {[ty |-> t, num |-> 0, nan |-> TRUE]} ELSE {})

Values(ts) == UNION {ValuesOf(t) : t \in ts}

\* Option<_>
None == {}
Some(v) == {v}
Unwrap(o) == CHOOSE v \in o : TRUE

\* `self == other` at the concrete type (both operands of type a.ty).
NativeEq(a, b) ==
    CASE a.ty = "i32"  -> a.num = b.num
      [] a.ty = "f64"  -> ~a.nan /\ ~b.nan /\ a.num = b.num
      [] a.ty = "Skew" -> a.num <= b.num

Cmp(m, n) == IF m < n THEN "Less" ELSE IF m = n THEN "Equal" ELSE "Greater"

\* `a.partial_cmp(b)` at the concrete type.
NativeCmp(a, b) ==
    CASE a.ty = "i32"  -> Some(Cmp(a.num, b.num))
      [] a.ty = "f64"  -> IF a.nan \/ b.nan THEN None ELSE Some(Cmp(a.num, b.num))
      [] a.ty = "Skew" -> IF a.num <= b.num THEN Some("Less") ELSE Some("Equal")

\* ------------------------------------------------------------- plumbing
\* Faulty variant: as_any resolved on the reference (`&T: Any`) instead of the
\* value, so the TypeId is that of the reference and no downcast succeeds.
as_any_of_ref(v) == [v EXCEPT !.ty = "&dyn"]

\* fn as_any(&self) -> &dyn Any { self }: same object, same TypeId.
as_any(v) == v

\* fn as_dyn_eq_helper(&self) -> &dyn DynEqHelper { self }
as_dyn_eq_helper(v) == v

\* fn as_dyn_ord_helper(&self) -> &dyn DynOrdHelper { self }
as_dyn_ord_helper(v) == v

\* <dyn Any>::downcast_ref::<T>(): Some exactly when the TypeIds agree.
downcast_ref(any, T) == IF any.ty = T THEN Some(any) ELSE None

Top == stack[Len(stack)]
Pop == SubSeq(stack, 1, Len(stack) - 1)
Frame(f, s, o) == [fn |-> f, self |-> s, other |-> o]

Ops == {"DynEq::eq", "DynOrd::partial_cmp", "DynOrd::eq"}

NoCall == [op |-> "none"]

\* A function body is entered when its frame is on top and nothing is being returned.
Entered(f) == stack # <<>> /\ Top.fn = f /\ ret = <<>>
\* A function resumes when its callee has returned.
Resumed(f) == stack # <<>> /\ Top.fn = f /\ ret # <<>>

Push(f, s, o) ==
    /\ Len(stack) < MaxDepth
    /\ stack' = Append(stack, Frame(f, s, o))
    /\ trace' = Append(trace, f)
    /\ UNCHANGED <<x, y, ret, cur, native, last>>

\* ------------------------------------------------------------ the caller
\* The caller applies an operator of a trait object to two of its values, in
\* either direction or to one value and itself.
\* A call that has returned is remembered in `last`.
Call(op, a, b) ==
    /\ stack = <<>>
    /\ last' = IF ret = <<>> THEN last
               ELSE [op |-> cur.op, self |-> cur.self, other |-> cur.other,
                     res |-> ret[1], native |-> native]
    /\ cur' = [op |-> op, self |-> a, other |-> b]
    /\ stack' = <<Frame(op, a, b)>>
    /\ trace' = <<op>>
    /\ ret' = <<>>
    /\ native' = <<>>
    /\ UNCHANGED <<x, y>>

\* ----------------------------------------------------------------- DynEq
\* impl PartialEq for dyn DynEq: self.dyn_eq(other.as_dyn_eq_helper())
DynEq_eq ==
    /\ Entered("DynEq::eq")
    /\ Push("dyn_eq", Top.self, as_dyn_eq_helper(Top.other))

\* fn dyn_eq(&self, other): other.static_eq(self)
dyn_eq ==
    /\ Entered("dyn_eq")
    /\ Push("static_eq", Top.other, Top.self)

StaticEqReturns(v, log) ==
    /\ ret' = <<v>>
    /\ native' = native \o log
    /\ stack' = Pop
    /\ UNCHANGED <<x, y, cur, trace, last>>

\* Faulty variant: a failed downcast counts as equal (map_or(true, ..)).
static_eq_true_on_mismatch ==
    /\ Entered("static_eq")
    /\ LET o == downcast_ref(as_any(Top.other), Top.self.ty)
       IN  IF o # None
           THEN StaticEqReturns(NativeEq(Top.self, Unwrap(o)),
                                <<[fn |-> "eq", lhs |-> Top.self, rhs |-> Unwrap(o)]>>)
           ELSE StaticEqReturns(TRUE, <<>>)

\* Faulty variant: the operands are swapped back before the native call
\* (`other == self`), as static_ord does for the ordering.
static_eq_swapped ==
    /\ Entered("static_eq")
    /\ LET o == downcast_ref(as_any(Top.other), Top.self.ty)
       IN  IF o # None
           THEN StaticEqReturns(NativeEq(Unwrap(o), Top.self),
                                <<[fn |-> "eq", lhs |-> Unwrap(o), rhs |-> Top.self]>>)
           ELSE StaticEqReturns(FALSE, <<>>)

\* Faulty variant: a one-directional fallback; an f64 receiver that fails to
\* downcast an i32 widens it and compares the numbers, an i32 receiver does not.
static_eq_widening ==
    /\ Entered("static_eq")
    /\ LET o == downcast_ref(as_any(Top.other), Top.self.ty)
       IN  IF o # None
           THEN StaticEqReturns(NativeEq(Top.self, Unwrap(o)),
                                <<[fn |-> "eq", lhs |-> Top.self, rhs |-> Unwrap(o)]>>)
           ELSE StaticEqReturns(Top.self.ty = "f64" /\ Top.other.ty = "i32"
                                  /\ ~Top.self.nan /\ Top.self.num = Top.other.num, <<>>)

\* fn static_eq(&self, other): downcast other to Self, then self == other, else false
static_eq ==
    /\ Entered("static_eq")
    /\ LET o == downcast_ref(as_any(Top.other), Top.self.ty)
       IN  IF o # None
           THEN StaticEqReturns(NativeEq(Top.self, Unwrap(o)),
                                <<[fn |-> "eq", lhs |-> Top.self, rhs |-> Unwrap(o)]>>)
           ELSE StaticEqReturns(FALSE, <<>>)

\* ---------------------------------------------------------------- DynOrd
\* impl PartialOrd for dyn DynOrd: self.dyn_ord(other.as_dyn_ord_helper())
partial_cmp ==
    /\ Entered("DynOrd::partial_cmp")
    /\ Push("dyn_ord", Top.self, as_dyn_ord_helper(Top.other))

\* fn dyn_ord(&self, other): other.static_ord(self)
dyn_ord ==
    /\ Entered("dyn_ord")
    /\ Push("static_ord", Top.other, Top.self)

StaticOrdReturns(v, log) ==
    /\ ret' = <<v>>
    /\ native' = native \o log
    /\ stack' = Pop
    /\ UNCHANGED <<x, y, cur, trace, last>>

\* Faulty variant: a failed downcast orders the pair as equal.
static_ord_equal_on_mismatch ==
    /\ Entered("static_ord")
    /\ LET o == downcast_ref(as_any(Top.other), Top.self.ty)
       IN  IF o # None
           THEN StaticOrdReturns(NativeCmp(Unwrap(o), Top.self),
                                 <<[fn |-> "partial_cmp", lhs |-> Unwrap(o), rhs |-> Top.self]>>)
           ELSE StaticOrdReturns(Some("Equal"), <<>>)

\* Faulty variant: the reversal of the dispatch hop is not undone
\* (`self.partial_cmp(other)`).
static_ord_unswapped ==
    /\ Entered("static_ord")
    /\ LET o == downcast_ref(as_any(Top.other), Top.self.ty)
       IN  IF o # None
           THEN StaticOrdReturns(NativeCmp(Top.self, Unwrap(o)),
                                 <<[fn |-> "partial_cmp", lhs |-> Top.self, rhs |-> Unwrap(o)]>>)
           ELSE StaticOrdReturns(None, <<>>)

\* Faulty variant: a one-directional fallback; an f64 receiver that fails to
\* downcast an i32 widens it and orders the numbers, an i32 receiver does not.
static_ord_widening ==
    /\ Entered("static_ord")
    /\ LET o == downcast_ref(as_any(Top.other), Top.self.ty)
       IN  IF o # None
           THEN StaticOrdReturns(NativeCmp(Unwrap(o), Top.self),
                                 <<[fn |-> "partial_cmp", lhs |-> Unwrap(o), rhs |-> Top.self]>>)
           ELSE IF Top.self.ty = "f64" /\ Top.other.ty = "i32" /\ ~Top.self.nan
                THEN StaticOrdReturns(Some(Cmp(Top.other.num, Top.self.num)), <<>>)
                ELSE StaticOrdReturns(None, <<>>)

\* fn static_ord(&self, other): downcast other to Self, then
\* other.partial_cmp(self) ("note the reversed order"), else None
static_ord ==
    /\ Entered("static_ord")
    /\ LET o == downcast_ref(as_any(Top.other), Top.self.ty)
       IN  IF o # None
           THEN StaticOrdReturns(NativeCmp(Unwrap(o), Top.self),
                                 <<[fn |-> "partial_cmp", lhs |-> Unwrap(o), rhs |-> Top.self]>>)
           ELSE StaticOrdReturns(None, <<>>)

\* Faulty variant: eq written as `self == other`, which calls itself.
DynOrd_eq_reentrant ==
    /\ Entered("DynOrd::eq")
    /\ Push("DynOrd::eq", Top.self, Top.other)

\* impl PartialEq for dyn DynOrd: self.partial_cmp(other) == Some(Equal); the call
DynOrd_eq ==
    /\ Entered("DynOrd::eq")
    /\ Push("DynOrd::partial_cmp", Top.self, Top.other)

\* Faulty variant: eq written as `self.partial_cmp(other).is_some()`.
DynOrd_eq_ret_is_some ==
    /\ Resumed("DynOrd::eq")
    /\ ret' = <<ret[1] # None>>
    /\ stack' = Pop
    /\ UNCHANGED <<x, y, cur, native, trace, last>>

\* ... and the comparison of what partial_cmp returned with Some(Ordering::Equal)
DynOrd_eq_ret ==
    /\ Resumed("DynOrd::eq")
    /\ ret' = <<ret[1] = Some("Equal")>>
    /\ stack' = Pop
    /\ UNCHANGED <<x, y, cur, native, trace, last>>

\* eq (dyn DynEq), dyn_eq, partial_cmp and dyn_ord return their callee's value as is.
TailFns == {"DynEq::eq", "dyn_eq", "DynOrd::partial_cmp", "dyn_ord"}

Return ==
    /\ stack # <<>> /\ Top.fn \in TailFns /\ ret # <<>>
    /\ stack' = Pop
    /\ UNCHANGED <<x, y, ret, cur, native, trace, last>>

\* --------------------------------------------------------- specifications
Start(ts) ==
    /\ x \in Values(ts)
    /\ y \in Values(ts)
    /\ stack = <<>>
    /\ ret = <<>>
    /\ cur = NoCall
    /\ native = <<>>
    /\ trace = <<>>
    /\ last = NoCall

\* Every type the trait bounds admit.
Init == Start(AllTypes)

\* Only types that honour the contracts of PartialEq and PartialOrd.
InitLawful == Start(LawfulTypes)

Step ==
    \/ DynEq_eq
    \/ dyn_eq
    \/ static_eq
    \/ partial_cmp
    \/ dyn_ord
    \/ static_ord
    \/ DynOrd_eq
    \/ DynOrd_eq_ret
    \/ Return

Next ==
    \/ \E op \in Ops : \E a \in {x, y} : \E b \in {x, y} : Call(op, a, b)
    \/ Step

Spec == Init /\ [][Next]_vars

SpecLawful == InitLawful /\ [][Next]_vars

\* ------------------------------------------------------------ properties
\* The operator call has returned to the caller with value Result.
Done == stack = <<>> /\ ret # <<>>
Result == ret[1]
SameType == cur.self.ty = cur.other.ty
CrossType == cur.self.ty # cur.other.ty
\* The previous completed call was `op` applied to a and b.
LastIs(op, a, b) == last.op = op /\ last.self = a /\ last.other = b

\* C1: operands of different concrete types compare unequal as dyn DynEq,
\* whatever their data, and no native comparison is invoked to decide it.
C1_CrossTypeUnequal ==
    (Done /\ cur.op = "DynEq::eq" /\ CrossType) => (Result = FALSE /\ native = <<>>)

\* An i32 and an f64 carrying the same number compared in both directions.
C1_Witness ==
    /\ Done /\ cur.op = "DynEq::eq"
    /\ cur.self.ty = "i32" /\ cur.other.ty = "f64"
    /\ ~cur.other.nan /\ cur.self.num = cur.other.num
    /\ Result = FALSE
    /\ LastIs("DynEq::eq", cur.other, cur.self) /\ last.res = FALSE

\* C2: operands of different concrete types are incomparable as dyn DynOrd:
\* partial_cmp returns None, never Some(_), whatever their data.
C2_CrossTypeIncomparable ==
    (Done /\ cur.op = "DynOrd::partial_cmp" /\ CrossType) => (Result = None /\ native = <<>>)

C2_Witness ==
    /\ Done /\ cur.op = "DynOrd::partial_cmp"
    /\ cur.self.ty = "f64" /\ cur.other.ty = "i32"
    /\ ~cur.self.nan /\ cur.self.num < cur.other.num
    /\ Result = None
    /\ LastIs("DynOrd::partial_cmp", cur.other, cur.self) /\ last.res = None

\* C3: for operands of one concrete type T, partial_cmp on dyn DynOrd invokes
\* T's partial_cmp once, with self on the left and other on the right, and
\* returns its result.
C3_SameTypeDelegatesInOrder ==
    (Done /\ cur.op = "DynOrd::partial_cmp" /\ SameType) =>
        /\ Result = NativeCmp(cur.self, cur.other)
        /\ native = <<[fn |-> "partial_cmp", lhs |-> cur.self, rhs |-> cur.other]>>

\* A larger value against a smaller one, and the converse just before it.
C3_Witness ==
    /\ Done /\ cur.op = "DynOrd::partial_cmp" /\ cur.self.ty = "i32"
    /\ cur.other.ty = "i32" /\ cur.self.num > cur.other.num
    /\ Result = Some("Greater")
    /\ LastIs("DynOrd::partial_cmp", cur.other, cur.self) /\ last.res = Some("Less")

\* C4 as stated: for operands of one concrete type T, == on dyn DynEq returns
\* T's native equality of self (left) and other (right), for any native equality.
C4_NativeEqSelfOther ==
    (Done /\ cur.op = "DynEq::eq" /\ SameType) => Result = NativeEq(cur.self, cur.other)

\* C4 amended: for operands of one concrete type T, == on dyn DynEq invokes
\* T's native equality once, with other on the left and self on the right,
\* and returns its result.
C4_NativeEqOtherSelf ==
    (Done /\ cur.op = "DynEq::eq" /\ SameType) =>
        /\ Result = NativeEq(cur.other, cur.self)
        /\ native = <<[fn |-> "eq", lhs |-> cur.other, rhs |-> cur.self]>>

\* A type with an asymmetric eq, on a pair where the two directions differ.
C4_Witness ==
    /\ Done /\ cur.op = "DynEq::eq" /\ SameType
    /\ NativeEq(cur.self, cur.other) # NativeEq(cur.other, cur.self)
    /\ Result = NativeEq(cur.other, cur.self)

C7_Reflexive ==
    (Done /\ cur.op = "DynEq::eq" /\ cur.self = cur.other) => Result = TRUE

\* C7 amended: x == x on dyn DynEq is the native x == x of x's concrete type:
\* true where that equality is reflexive, false elsewhere (f64 NaN).
C7_ReflexiveWhereNativeIs ==
    (Done /\ cur.op = "DynEq::eq" /\ cur.self = cur.other) =>
        Result = NativeEq(cur.self, cur.self)

C7_Witness ==
    /\ Done /\ cur.op = "DynEq::eq" /\ cur.self = cur.other
    /\ cur.self.ty = "f64" /\ cur.self.nan
    /\ Result = FALSE
    /\ LastIs("DynEq::eq", x, x) /\ ~x.nan /\ last.res = TRUE

Chain(op) ==
    CASE op = "DynEq::eq"           -> <<"DynEq::eq", "dyn_eq", "static_eq">>
      [] op = "DynOrd::partial_cmp" -> <<"DynOrd::partial_cmp", "dyn_ord", "static_ord">>
      [] op = "DynOrd::eq"          -> <<"DynOrd::eq", "DynOrd::partial_cmp", "dyn_ord", "static_ord">>

InCall == stack # <<>>

\* The functions entered so far are an initial part of the operator's chain:
\* at most four frames, none entered twice, at most one native comparison.
ChainBounded ==
    IF cur.op \in Ops
    THEN /\ Len(trace) <= Len(Chain(cur.op))
         /\ trace = SubSeq(Chain(cur.op), 1, Len(trace))
         /\ Len(stack) <= Len(trace)
         /\ Len(native) <= 1
    ELSE stack = <<>>

\* The value handed back is a boolean or an Option<Ordering>, and the whole
\* chain was run to produce it.
ReturnsValue ==
    IF Done
    THEN /\ trace = Chain(cur.op)
         /\ IF cur.op = "DynOrd::partial_cmp"
            THEN Result \in {None, Some("Less"), Some("Equal"), Some("Greater")}
            ELSE Result \in BOOLEAN
    ELSE TRUE

\* C9: every operator call runs a bounded chain of calls without re-entering
\* an operator, is never stuck before it has returned, and returns a value
\* (a boolean or an Option<Ordering>) to the caller.
C9_Totality == ChainBounded /\ ReturnsValue /\ (InCall => ENABLED Step)

\* The longest chain, run to its end with one native comparison.
C9_Witness ==
    /\ Done /\ cur.op = "DynOrd::eq"
    /\ trace = <<"DynOrd::eq", "DynOrd::partial_cmp", "dyn_ord", "static_ord">>
    /\ Len(native) = 1

\* C10: == on dyn DynOrd is true exactly when partial_cmp on the same pair is
\* Some(Equal); a cross-type pair is never equal; T's native equality is not
\* invoked.
C10_OrdEqFromPartialCmp ==
    /\ (Done /\ cur.op = "DynOrd::eq") =>
           /\ \A i \in 1..Len(native) : native[i].fn = "partial_cmp"
           /\ CrossType => Result = FALSE
           /\ LastIs("DynOrd::partial_cmp", cur.self, cur.other) =>
                  (Result <=> (last.res = Some("Equal")))
    /\ (Done /\ cur.op = "DynOrd::partial_cmp" /\ LastIs("DynOrd::eq", cur.self, cur.other)) =>
           (last.res <=> (Result = Some("Equal")))

\* A pair whose partial_cmp is Some(Equal) although its native == is false.
C10_Witness ==
    /\ Done /\ cur.op = "DynOrd::eq" /\ SameType
    /\ LastIs("DynOrd::partial_cmp", cur.self, cur.other) /\ last.res = Some("Equal")
    /\ ~NativeEq(cur.self, cur.other)
    /\ Result = TRUE

====
